---- MODULE Spec2Model ----
(***************************************************************************)
(* The step-execution engine of class Test                                 *)
(* (src/packages/docs/src/check_public_api/JSBuilder.ts, lines 231-492).   *)
(*                                                                         *)
(* One Test object is shared by a bounded number of invocations of         *)
(* run() / runWithCancellation().  JavaScript runs each stretch of code    *)
(* between two awaits atomically, so every action below is one such        *)
(* stretch: it starts where a promise the code awaits settles and ends at  *)
(* the next await.  A call whose implementation is outside the class       *)
(* (the driver, the interceptor, the observer hooks, the step bodies, the  *)
(* data source) either returns or throws; both outcomes are actions.       *)
(***************************************************************************)
EXTENDS Integers, Sequences, FiniteSets, TLC

\* ---------------------------------------------------------------- bounds
\* Number of invocations of run()/runWithCancellation() on the Test object.
MaxRuns == 2
\* Number of steps of the script.
NumSteps == 2
\* Largest iteration number passed to run().
MaxIteration == 2
\* Number of calls of Test.cancel() that reach one invocation's observer.
MaxCancels == 2
\* Number of driver commands one step body issues.
MaxCommands == 1

Runs == 1..MaxRuns
Steps == 1..NumSteps

\* ------------------------------------------------------------- constants
\* StepType (imported from './Step'): the two kinds of step.
StepTypes == {"NORMAL", "ONCE"}

\* The values a step body can throw, by what liftToStructuredError and the
\* "error !== null" test of runStep can tell apart:
\*   AssertionError  an Error whose name starts with 'AssertionError'
\*   Structured      an error carrying _structured === 'yes'
\*   AssertionText   Error("assertion failed: x"): name 'Error'
\*   PlainError      any other Error
\*   String          a thrown string (its .name is undefined)
\*   Undefined       throw undefined
\*   Null            throw null
ThrownValues ==
    {"AssertionError", "Structured", "AssertionText", "PlainError",
     "String", "Undefined", "Null"}

\* The keys of the settings objects the model distinguishes.
Keys == {"stepDelay", "actionDelay"}

\* The settings object of the Test (this.settings) and the objects runStep
\* allocates: object identities are triples, so that "the same object" and
\* "an equal object" are different statements.
BaseSettings == <<"settings", 0, 0>>

OriginalId(r, i) == <<"originalBrowserSettings", r, i>>

MergedId(r, i) == <<"merged", r, i>>

\* step.stepOptions of step i: odd steps override actionDelay, even steps
\* override stepDelay.
StepOptions(i) ==
    IF i % 2 = 1 THEN [k \in {"actionDelay"} |-> i + 1]
                 ELSE [k \in {"stepDelay"} |-> i + 1]

\* A merge in which the keys of a are kept.
SpreadFirstWins(a, b) ==
    [k \in (DOMAIN a) \cup (DOMAIN b) |-> IF k \in DOMAIN a THEN a[k] ELSE b[k]]

\* { ...a, ...b }: a new object, keys of b replace keys of a.
Spread(a, b) ==
    [k \in (DOMAIN a) \cup (DOMAIN b) |-> IF k \in DOMAIN b THEN b[k] ELSE a[k]]

VARIABLES
    steps,           \* this.steps: the type of each step, fixed at construction
    failed,          \* this.failed
    testCancel,      \* this.testCancel: 0 = the initial no-op, r = the closure
                     \*   registered by invocation r (calls its testObserver.after)
    runningBrowser,  \* this.runningBrowser: <<"undefined">>, <<"null">>, <<"browser", r>>
    heap,            \* the settings objects: identity -> content
    inv              \* inv[r]: the activation of invocation r (see NewInvocation)

vars == <<steps, failed, testCancel, runningBrowser, heap, inv>>

\* The activation record of one invocation of runWithCancellation with the
\* runStep it has in flight, and what its observer and interceptor have seen.
NewInvocation ==
    [ pc        |-> "idle",     \* position in runWithCancellation
      iteration |-> 0,          \* parameter iteration
      requested |-> FALSE,      \* cancelToken.isCancellationRequested
      step      |-> 0,          \* browser.customContext / loop variable
      rs        |-> "none",     \* position in runStep
      error     |-> "none",     \* runStep's local `error` ("none" is null)
      bodyThrew |-> "none",     \* what the body of the current step threw
      winner    |-> "none",     \* how Promise.race settled
      exit      |-> "none",     \* how the try block was left
      raised    |-> "none",     \* the error travelling to the caller
      outcome   |-> "none",     \* "returned" or "threw" once run() has ended
      settings  |-> BaseSettings,  \* browser.settings (a reference)
      original  |-> BaseSettings,  \* originalBrowserSettings (a reference)
      preStep   |-> BaseSettings,  \* browser.settings when runStep was called
      installed |-> BaseSettings,  \* browser.settings while the body ran
      log       |-> << >>,      \* the calls on testObserver and of the step
                                \*   body since runStep was last called:
                                \*   <<hook, step, argument>> in call order
      detached  |-> 0,          \* calls of requestInterceptor.detach
      attached  |-> FALSE,      \* requestInterceptor.attach has completed
      afterRun  |-> 0,          \* testObserver.after called by line 380
      afterCancel |-> 0,        \* testObserver.after called through cancel()
      cancelled |-> FALSE,      \* cancel() was called during this invocation
      bodyPending |-> FALSE,    \* run() ended before the body of the runStep
                                \*   in flight had returned or thrown
      rejection |-> "none",     \* why the promise of runStep rejected
      timer     |-> FALSE       \* doStepDelay has scheduled its setTimeout
    ]

\* After construction (lines 239-274): failed and runningBrowser have no
\* initialiser and are undefined; an undefined failed reads as false.
Init ==
    /\ steps \in [Steps -> StepTypes]
    /\ failed = FALSE
    /\ testCancel = 0
    /\ runningBrowser = <<"undefined">>
    /\ heap = [o \in {BaseSettings} |-> [k \in Keys |-> 1]]
    /\ inv = [r \in Runs |-> NewInvocation]

\* ------------------------------------------------------- pure helpers
\* A call runStep or the driver makes on the invocation's testObserver for a
\* step, or the call of the step's body, recorded in call order.  (The
\* run-level before is the position "before"; the run-level after is counted
\* in afterRun and afterCancel.)
Call(v, hook, s, arg) == [v EXCEPT !.log = Append(@, <<hook, s, arg>>)]

\* A guard that also skips in iteration 1.
SkipsFromFirst(stepType, iteration) == stepType = "ONCE" /\ iteration >= 1

\* Line 353: the step is skipped.
Skips(stepType, iteration) == stepType = "ONCE" /\ iteration > 1

\* Lines 351-355: the next step of the for-loop after position `from` that
\* is not skipped; 0 when the loop is over.
NextStep(v, from) ==
    LET rest == {i \in Steps : i > from /\ ~Skips(steps[i], v.iteration)}
    IN  IF rest = {} THEN 0 ELSE CHOOSE i \in rest : \A j \in rest : i <= j

\* A loop that calls runStep without awaiting it: the loop goes on at once.
StartStepNotAwaited(v, i) ==
    [v EXCEPT
        !.pc = "race", !.step = i, !.rs = "beforeStep",
        !.error = "none", !.bodyThrew = "none", !.rejection = "none",
        !.timer = FALSE,
        !.preStep = v.settings,
        !.log = << <<"beforeStep", i, "-">> >>,
        !.winner = IF v.requested THEN "cancel" ELSE "step"]

\* Lines 357-362 with 397-398: browser.customContext = step, runStep is
\* called and runs up to its first await (beforeStep has been called), and
\* Promise.race is built: the token's promise wins at once when the token
\* is already cancelled, since the promise of runStep is still pending.
StartStep(v, i) ==
    [v EXCEPT
        !.pc = "race", !.step = i, !.rs = "beforeStep",
        !.error = "none", !.bodyThrew = "none", !.rejection = "none",
        !.timer = FALSE,
        !.preStep = v.settings,
        !.log = << <<"beforeStep", i, "-">> >>,
        !.winner = IF v.requested THEN "cancel" ELSE "none"]

\* A detach placed after the try block instead of in a finally clause: the
\* return of line 364 leaves without it.
EnterFinallyNotOnReturn(v, how, e) ==
    [v EXCEPT !.pc = "detach", !.exit = how, !.raised = e,
              !.detached = IF how = "return" THEN @ ELSE @ + 1]

\* Lines 375-376: the finally clause calls requestInterceptor.detach; `how`
\* is the way the try block was left ("normal", "return" or "throw").
EnterFinally(v, how, e) ==
    [v EXCEPT !.pc = "detach", !.exit = how, !.raised = e, !.detached = @ + 1]

\* Lines 351-370: the loop goes on after position `from`.
RunLoop(v, from) ==
    IF NextStep(v, from) = 0
    THEN EnterFinally(v, "normal", "none")
    ELSE StartStep(v, NextStep(v, from))

\* The promise of runStep settles; it decides the race unless the token did.
Settle(v, how, e) ==
    [v EXCEPT !.rs = how, !.rejection = e,
              !.winner = IF @ # "none" THEN @
                         ELSE IF how = "resolved" THEN "step" ELSE "stepRejected"]

\* A run() whose end stops the runStep it has in flight.
EndStopsStep(v, how, e) ==
    [v EXCEPT !.pc = "done", !.outcome = how, !.raised = e,
              !.bodyPending = v.rs \in {"beforeStep", "body"},
              !.rs = IF @ \in {"beforeStep", "body", "outcome", "afterStep", "delay"}
                     THEN "none" ELSE @]

\* run() has ended for its caller, whether or not the runStep it called
\* last has settled.
End(v, how, e) ==
    [v EXCEPT !.pc = "done", !.outcome = how, !.raised = e,
              !.bodyPending = v.rs \in {"beforeStep", "body"}]

\* In flight: runStep has been called and its promise has not settled.
InFlight(v) == v.rs \in {"beforeStep", "body", "outcome", "afterStep", "delay"}

\* An invocation that has ended and whose testCancel closure has been
\* replaced by a later invocation's (line 307) is referenced by the Test no
\* more.  With no runStep in flight nothing can reach its observer, its
\* browser or its settings objects again, and its record is dropped.  With
\* an abandoned runStep still in flight, the record keeps what that runStep
\* can still read or write: its position, its step, whether `error` is
\* null, its settings references and the commands of a running body.
Retired == [NewInvocation EXCEPT !.pc = "retired"]

Abandoned(v) ==
    [v EXCEPT !.pc = "abandoned", !.iteration = 0, !.afterCancel = 0,
              !.cancelled = FALSE, !.bodyPending = FALSE,
              !.bodyThrew = "none",
              !.error = IF @ = "none" THEN "none" ELSE "PlainError",
              !.log = IF v.rs = "body" THEN @ ELSE << >>]

Replaced(v, q, tc) == v.pc \in {"done", "abandoned"} /\ tc > q

\* The activations after invocation r has moved to v, with tc the closure
\* then registered.
SetWith(r, v, tc) ==
    inv' = [q \in Runs |->
              LET w == IF q = r THEN v ELSE inv[q]
              IN  IF ~Replaced(w, q, tc) THEN w
                  ELSE IF InFlight(w) THEN Abandoned(w) ELSE Retired]

Set(r, v) == SetWith(r, v, testCancel)

\* The settings objects after the step: h without the objects of dropped
\* activations.
Objects(h) ==
    heap' = [x \in {y \in DOMAIN h : y = BaseSettings \/ inv'[y[2]].pc # "retired"} |-> h[x]]

\* ------------------------------------------ runWithCancellation (294-381)
\* Lines 290-304: run(iteration) passes iteration || 0 and a token nobody
\* else holds, so that its invocations are those in which TokenCancel never
\* happens; runWithCancellation is public and takes the caller's token.
\* One invocation at a time: the caller awaits the previous one.
Start(r) ==
    /\ inv[r].pc = "idle"
    /\ r > 1 => inv[r - 1].pc \in {"done", "abandoned", "retired"}
    /\ \E it \in 0..MaxIteration :
         Set(r, [inv[r] EXCEPT !.pc = "reopenPage", !.iteration = it])
    /\ Objects(heap)
    /\ UNCHANGED <<steps, failed, testCancel, runningBrowser>>

\* Line 304 returns; line 305 is called.
ReopenPageReturn(r) ==
    /\ inv[r].pc = "reopenPage"
    /\ Set(r, [inv[r] EXCEPT !.pc = "attach"])
    /\ Objects(heap)
    /\ UNCHANGED <<steps, failed, testCancel, runningBrowser>>

\* Line 304 throws: outside the try, nothing is caught or released.
ReopenPageThrow(r) ==
    /\ inv[r].pc = "reopenPage"
    /\ Set(r, End(inv[r], "threw", "reopenPage"))
    /\ Objects(heap)
    /\ UNCHANGED <<steps, failed, testCancel, runningBrowser>>

\* Line 305 throws: outside the try as well.
AttachThrow(r) ==
    /\ inv[r].pc = "attach"
    /\ Set(r, End(inv[r], "threw", "attach"))
    /\ Objects(heap)
    /\ UNCHANGED <<steps, failed, testCancel, runningBrowser>>

\* Lines 307-340: attach has returned; testCancel is registered, failed is
\* reset, the Browser is built on this.settings and becomes runningBrowser.
\* With some driver setup configured (lines 331-337) the first setup call is
\* awaited; with none, testObserver.before is called at once.
AttachReturn(r) ==
    /\ inv[r].pc = "attach"
    /\ testCancel' = r
    /\ failed' = FALSE
    /\ runningBrowser' = <<"browser", r>>
    /\ \E configured \in BOOLEAN :
         LET v == [inv[r] EXCEPT !.attached = TRUE, !.settings = BaseSettings]
         IN  SetWith(r, IF configured THEN [v EXCEPT !.pc = "setup"]
                        ELSE [v EXCEPT !.pc = "before"], r)
    /\ Objects(heap)
    /\ UNCHANGED <<steps>>

\* Lines 331-340: the configured driver setup returns; before is called.
SetupReturn(r) ==
    /\ inv[r].pc = "setup"
    /\ Set(r, [inv[r] EXCEPT !.pc = "before"])
    /\ Objects(heap)
    /\ UNCHANGED <<steps, failed, testCancel, runningBrowser>>

\* Lines 331-337 throw: caught at 371-376.
SetupThrow(r) ==
    /\ inv[r].pc = "setup"
    /\ failed' = TRUE
    /\ Set(r, EnterFinally(inv[r], "throw", "setup"))
    /\ Objects(heap)
    /\ UNCHANGED <<steps, testCancel, runningBrowser>>

\* Lines 340-362: before has returned; testData.feed() gives a record or
\* null.  null throws (345), caught at 371; otherwise the loop starts.
BeforeReturn(r) ==
    /\ inv[r].pc = "before"
    /\ \E record \in {"record", "null"} :
         IF record = "null"
         THEN /\ failed' = TRUE
              /\ Set(r, EnterFinally(inv[r], "throw", "Test data exhausted"))
         ELSE /\ failed' = failed
              /\ Set(r, RunLoop(inv[r], 0))
    /\ Objects(heap)
    /\ UNCHANGED <<steps, testCancel, runningBrowser>>

\* Line 340 throws.
BeforeThrow(r) ==
    /\ inv[r].pc = "before"
    /\ failed' = TRUE
    /\ Set(r, EnterFinally(inv[r], "throw", "before"))
    /\ Objects(heap)
    /\ UNCHANGED <<steps, testCancel, runningBrowser>>

\* Lines 359-370: the race has settled and the loop body goes on.
RaceContinue(r) ==
    LET v == inv[r] IN
    /\ v.pc = "race"
    /\ v.winner # "none"
    /\ IF v.winner = "stepRejected"
       THEN /\ failed' = TRUE
            /\ Set(r, EnterFinally(v, "throw", v.rejection))
       ELSE IF v.requested
       THEN /\ failed' = failed
            /\ Set(r, EnterFinally(v, "return", "none"))
       ELSE IF failed
       THEN /\ failed' = TRUE
            /\ Set(r, EnterFinally(v, "throw", "test failed"))
       ELSE /\ failed' = failed
            /\ Set(r, RunLoop(v, v.step))
    /\ Objects(heap)
    /\ UNCHANGED <<steps, testCancel, runningBrowser>>

\* Lines 376-381: detach has returned.  After a normal end of the try block
\* testObserver.after is called; a return returns, a throw is rethrown.
DetachReturn(r) ==
    LET v == inv[r] IN
    /\ v.pc = "detach"
    /\ Set(r, CASE v.exit = "normal" ->
                     [v EXCEPT !.pc = "after", !.afterRun = @ + 1]
                [] v.exit = "return" -> End(v, "returned", "none")
                [] OTHER -> End(v, "threw", v.raised))
    /\ Objects(heap)
    /\ UNCHANGED <<steps, failed, testCancel, runningBrowser>>

\* Line 376 throws: its error replaces whatever the try block ended with.
DetachThrow(r) ==
    /\ inv[r].pc = "detach"
    /\ Set(r, End(inv[r], "threw", "detach"))
    /\ Objects(heap)
    /\ UNCHANGED <<steps, failed, testCancel, runningBrowser>>

\* Line 380 returns.
AfterReturn(r) ==
    /\ inv[r].pc = "after"
    /\ Set(r, End(inv[r], "returned", "none"))
    /\ Objects(heap)
    /\ UNCHANGED <<steps, failed, testCancel, runningBrowser>>

\* Line 380 throws: past the try block, so failed is not touched.
AfterThrow(r) ==
    /\ inv[r].pc = "after"
    /\ Set(r, End(inv[r], "threw", "after"))
    /\ Objects(heap)
    /\ UNCHANGED <<steps, failed, testCancel, runningBrowser>>

\* ------------------------------------------------------- runStep (391-432)
\* The driver commands the current body has issued, and whether one of them
\* is between willRunCommand and didRunCommand.
Commands(v) == Cardinality({j \in DOMAIN v.log : v.log[j][1] = "beforeStepAction"})

InCommand(v) == v.log # << >> /\ v.log[Len(v.log)][1] = "beforeStepAction"

\* Line 435 reads error.name and calls startsWith on it: that throws a
\* TypeError for a value without a string name (a string, undefined).
NameReadable(t) == t \notin {"String", "Undefined", "Null"}

\* Lines 434-447: the kind of the structured error handed to onStepError.
liftToStructuredError(t) ==
    IF t = "AssertionError" THEN "assertion"
    ELSE IF t = "Structured" THEN "structured"
    ELSE "empty"

\* A runStep without the finally clause: the merged settings stay installed.
RestoreSettingsMissing(v) == v

\* Lines 409-411: the finally clause re-installs the snapshot.
RestoreSettings(v) == [v EXCEPT !.settings = v.original]

\* Lines 398-406: beforeStep has returned.  The snapshot is a new object
\* with the content of browser.settings, the merged settings are a new
\* object built from this.settings and step.stepOptions, and the body is
\* called.
BeforeStepReturn(r) ==
    LET v == inv[r]
        o == OriginalId(r, v.step)
        m == MergedId(r, v.step)
    IN
    /\ v.rs = "beforeStep"
    /\ Set(r, [Call(v, "body", v.step, "-") EXCEPT
                 !.rs = "body", !.original = o, !.settings = m, !.installed = m])
    /\ Objects([x \in (DOMAIN heap) \cup {o, m} |->
                  IF x = o THEN Spread(heap[v.settings], << >>)
                  ELSE IF x = m THEN Spread(heap[BaseSettings], StepOptions(v.step))
                  ELSE heap[x]])
    /\ UNCHANGED <<steps, failed, testCancel, runningBrowser>>

\* Line 398 throws: runStep rejects.
BeforeStepThrow(r) ==
    /\ inv[r].rs = "beforeStep"
    /\ Set(r, Settle(inv[r], "rejected", "beforeStep"))
    /\ Objects(heap)
    /\ UNCHANGED <<steps, failed, testCancel, runningBrowser>>

\* Lines 467-472: the body issues a driver command; the driver calls
\* willRunCommand, which reports it for browser.customContext.
WillRunCommand(r) ==
    LET v == inv[r] IN
    /\ v.rs = "body"
    /\ ~InCommand(v)
    /\ Commands(v) < MaxCommands
    /\ Set(r, Call(v, "beforeStepAction", v.step, "-"))
    /\ Objects(heap)
    /\ UNCHANGED <<steps, failed, testCancel, runningBrowser>>

\* Lines 474-476: the command is done; the driver calls didRunCommand.
DidRunCommand(r) ==
    LET v == inv[r] IN
    /\ v.rs = "body"
    /\ InCommand(v)
    /\ Set(r, Call(v, "afterStepAction", v.step, "-"))
    /\ Objects(heap)
    /\ UNCHANGED <<steps, failed, testCancel, runningBrowser>>

\* Lines 406-420: the body has returned; settings are restored, error is
\* still null, onStepPassed is called.
BodyReturn(r) ==
    LET v == inv[r] IN
    /\ v.rs = "body"
    /\ ~InCommand(v)
    /\ Set(r, [Call(RestoreSettings(v), "onStepPassed", v.step, "-") EXCEPT !.rs = "outcome"])
    /\ Objects(heap)
    /\ UNCHANGED <<steps, failed, testCancel, runningBrowser>>

\* Lines 406-420: the body has thrown t.  error = err (408); settings are
\* restored (410); error !== null (413) is false for a thrown null, which
\* then takes the passed branch; otherwise failed is set (416),
\* liftToStructuredError is evaluated (it throws for a value whose name
\* cannot be read, and runStep rejects) and onStepError is called.
BodyThrow(r) ==
    LET v == inv[r] IN
    /\ v.rs = "body"
    /\ ~InCommand(v)
    /\ \E t \in ThrownValues :
         LET e == IF t = "Null" THEN "none" ELSE t
             w == [RestoreSettings(v) EXCEPT !.error = e, !.bodyThrew = t]
         IN
         IF e = "none"
         THEN /\ failed' = failed
              /\ Set(r, [Call(w, "onStepPassed", v.step, "-") EXCEPT !.rs = "outcome"])
         ELSE /\ failed' = TRUE
              /\ Set(r, IF NameReadable(e)
                        THEN [Call(w, "onStepError", v.step, liftToStructuredError(e))
                                EXCEPT !.rs = "outcome"]
                        ELSE Settle(w, "rejected", "TypeError"))
    /\ Objects(heap)
    /\ UNCHANGED <<steps, testCancel, runningBrowser>>

\* Lines 418-423: onStepPassed / onStepError has returned; afterStep is called.
OutcomeReturn(r) ==
    LET v == inv[r] IN
    /\ v.rs = "outcome"
    /\ Set(r, [Call(v, "afterStep", v.step, "-") EXCEPT !.rs = "afterStep"])
    /\ Objects(heap)
    /\ UNCHANGED <<steps, failed, testCancel, runningBrowser>>

\* Line 418 or 420 throws: runStep rejects.
OutcomeThrow(r) ==
    /\ inv[r].rs = "outcome"
    /\ Set(r, Settle(inv[r], "rejected", "outcomeHook"))
    /\ Objects(heap)
    /\ UNCHANGED <<steps, failed, testCancel, runningBrowser>>

\* Lines 423-427 with 453-465: afterStep has returned.  After an error
\* runStep is done; otherwise doStepDelay is awaited, which sets a timer
\* unless the test is skipping or stepDelay <= 0.
AfterStepReturn(r) ==
    LET v == inv[r] IN
    /\ v.rs = "afterStep"
    /\ Set(r, IF v.error # "none"
              THEN Settle(v, "resolved", "none")
              ELSE [v EXCEPT !.rs = "delay",
                             !.timer = ~(failed \/ heap[BaseSettings]["stepDelay"] <= 0)])
    /\ Objects(heap)
    /\ UNCHANGED <<steps, failed, testCancel, runningBrowser>>

\* Line 423 throws: runStep rejects.
AfterStepThrow(r) ==
    /\ inv[r].rs = "afterStep"
    /\ Set(r, Settle(inv[r], "rejected", "afterStep"))
    /\ Objects(heap)
    /\ UNCHANGED <<steps, failed, testCancel, runningBrowser>>

\* Lines 426-432: doStepDelay is over; runStep resolves.
DelayDone(r) ==
    /\ inv[r].rs = "delay"
    /\ Set(r, Settle(inv[r], "resolved", "none"))
    /\ Objects(heap)
    /\ UNCHANGED <<steps, failed, testCancel, runningBrowser>>

\* ------------------------------------------------------ cancel (276-279)
\* Lines 276-279 with 307-309: failed is set and testCancel is called: the
\* initial no-op, or the closure of the invocation that registered last,
\* which calls that invocation's testObserver.after.  No token is touched.
\* Every invocation in progress notes that cancel() was called during it.
Cancel ==
    /\ testCancel # 0 => inv[testCancel].afterCancel < MaxCancels
    /\ failed' = TRUE
    /\ inv' = [r \in Runs |->
                 LET v == IF inv[r].pc \in {"idle", "done", "abandoned", "retired"}
                          THEN inv[r]
                          ELSE [inv[r] EXCEPT !.cancelled = TRUE]
                 IN  IF r = testCancel THEN [v EXCEPT !.afterCancel = @ + 1] ELSE v]
    /\ Objects(heap)
    /\ UNCHANGED <<steps, testCancel, runningBrowser>>

\* ----------------------------------------------------- CancellationToken
\* The caller of runWithCancellation cancels the token it passed: the flag
\* is set and the token's promise resolves, which decides a pending race.
TokenCancel(r) ==
    LET v == inv[r] IN
    /\ v.pc \notin {"idle", "done", "abandoned", "retired"}
    /\ ~v.requested
    /\ Set(r, [v EXCEPT !.requested = TRUE,
                        !.winner = IF v.pc = "race" /\ @ = "none" THEN "cancel" ELSE @])
    /\ Objects(heap)
    /\ UNCHANGED <<steps, failed, testCancel, runningBrowser>>

\* ----------------------------------------------------------- specification
\* One stretch of invocation r, of its runStep, or of the holder of its token.
Invocation(r) ==
    \/ Start(r)
    \/ ReopenPageReturn(r)
    \/ ReopenPageThrow(r)
    \/ AttachReturn(r)
    \/ AttachThrow(r)
    \/ SetupReturn(r)
    \/ SetupThrow(r)
    \/ BeforeReturn(r)
    \/ BeforeThrow(r)
    \/ RaceContinue(r)
    \/ DetachReturn(r)
    \/ DetachThrow(r)
    \/ AfterReturn(r)
    \/ AfterThrow(r)
    \/ BeforeStepReturn(r)
    \/ BeforeStepThrow(r)
    \/ WillRunCommand(r)
    \/ DidRunCommand(r)
    \/ BodyReturn(r)
    \/ BodyThrow(r)
    \/ OutcomeReturn(r)
    \/ OutcomeThrow(r)
    \/ AfterStepReturn(r)
    \/ AfterStepThrow(r)
    \/ DelayDone(r)
    \/ TokenCancel(r)

Next == Cancel \/ \E r \in Runs : Invocation(r)

Spec == Init /\ [][Next]_vars

\* The behaviours in which the Test is run once: no second invocation starts.
NextRun == Cancel \/ Invocation(1)

SpecRun == Init /\ [][NextRun]_vars

\* Lines 290-292: an invocation made by run(), whose token nobody else
\* holds, in the stretches in which no hook, no driver call and no step body
\* throws.
PassingRun(r) ==
    \/ Start(r)
    \/ ReopenPageReturn(r)
    \/ AttachReturn(r)
    \/ SetupReturn(r)
    \/ BeforeReturn(r)
    \/ RaceContinue(r)
    \/ DetachReturn(r)
    \/ AfterReturn(r)
    \/ BeforeStepReturn(r)
    \/ WillRunCommand(r)
    \/ DidRunCommand(r)
    \/ BodyReturn(r)
    \/ OutcomeReturn(r)
    \/ AfterStepReturn(r)
    \/ DelayDone(r)

\* The behaviours in which the Test is run twice and cancel() is not called:
\* any first invocation, which may leave a runStep behind when its token is
\* cancelled, then a run() in which nothing throws.
NextAgain == Invocation(1) \/ PassingRun(2)

SpecAgain == Init /\ [][NextAgain]_vars

\* ======================================================================
\* Properties
\* ======================================================================
Live == {r \in Runs : inv[r].pc \notin {"idle", "retired"}}

\* The invocation has not ended for its caller.
Running(v) == v.pc \in {"reopenPage", "attach", "setup", "before", "race", "detach", "after"}

\* The body of the current step has been called and has returned or thrown.
PastBody(v) ==
    /\ v.rs \in {"outcome", "afterStep", "delay", "resolved", "rejected"}
    /\ \E j \in DOMAIN v.log : v.log[j][1] = "body"

\* In the step from the unprimed to the primed state invocation r starts a step.
StepBegins(r) ==
    /\ inv'[r].pc = "race"
    /\ inv'[r].rs = "beforeStep"
    /\ inv[r].rs # "beforeStep" \/ inv'[r].step # inv[r].step

\* ---------------------------------------------------------------------
\* C1: if the body of step k throws, whatever the value, no later step of
\* that run begins, and failed is true from then on until the run ends.
C1_ThrowStopsRun ==
    [][\A r \in Runs :
         /\ inv[r].bodyThrew # "none" => ~StepBegins(r)
         /\ (inv'[r].bodyThrew # "none" /\ Running(inv'[r])) => failed']_vars

C3_HookOrder ==
    \A r \in Live :
        LET v == inv[r]
            n == Len(v.log)
        IN  (v.rs = "resolved" /\ v.pc # "abandoned") =>
              /\ n >= 4
              /\ \A j \in 1..n : v.log[j][2] = v.step
              /\ v.log[1][1] = "beforeStep"
              /\ v.log[2][1] = "body"
              /\ \A j \in 3..(n - 2) :
                    v.log[j][1] = IF j % 2 = 1 THEN "beforeStepAction" ELSE "afterStepAction"
              /\ n % 2 = 0
              /\ v.log[n - 1][1] = IF v.bodyThrew = "none" THEN "onStepPassed" ELSE "onStepError"
              /\ v.log[n][1] = "afterStep"

\* ---------------------------------------------------------------------
\* C4: once the token is cancelled while steps are still to come, no step
\* begins any more and the try block is left by the return of line 364.
StepsToCome(v) ==
    /\ v.pc \in {"reopenPage", "attach", "setup", "before", "race"}
    /\ NextStep(v, v.step) # 0

C4_CancelledBeforeStep ==
    [][\A r \in Runs :
         (inv[r].requested /\ StepsToCome(inv[r])) =>
            /\ ~StepBegins(r)
            /\ (inv[r].pc = "race" /\ inv'[r].pc = "detach") => inv'[r].exit = "return"]_vars

\* ---------------------------------------------------------------------
\* C5: a run that is not cancelled and in which a step has failed ends by
\* throwing, after testObserver.after has been called once.
C5_AfterOnFailure ==
    \A r \in Live :
        LET v == inv[r] IN
        (v.pc = "done" /\ v.error # "none" /\ ~v.requested /\ v.afterCancel = 0
            /\ v.raised = "test failed") =>
            (v.outcome = "threw" /\ v.afterRun = 1)

\* ---------------------------------------------------------------------
\* C6: when the data source has no record, no step is begun, run() throws
\* the data-exhaustion error and testObserver.after has been called once.
C6_AfterOnExhaustion ==
    \A r \in Live :
        LET v == inv[r] IN
        (v.pc = "done" /\ v.raised = "Test data exhausted") =>
            /\ v.step = 0
            /\ v.outcome = "threw"
            /\ v.afterRun + v.afterCancel = 1

C8_CancelIdempotent ==
    \A r \in Live : inv[r].afterCancel <= 1

\* ---------------------------------------------------------------------
\* A step of invocation r is executing, as its caller sees it.
ExecutingStep(v) == v.pc = "race" /\ InFlight(v)

\* C9: a cancel() called while a step executes leaves the run's token
\* cancelled, and an undecided race decided for the cancellation.
C9_CancelResolvesToken ==
    [][\A r \in Runs :
         (inv'[r].afterCancel # inv[r].afterCancel /\ ExecutingStep(inv[r])) =>
            /\ inv'[r].requested
            /\ inv[r].winner = "none" => inv'[r].winner = "cancel"]_vars

\* ---------------------------------------------------------------------
\* C10: a ONCE step is begun only in a run with iteration <= 1; the loop
\* passes over a step only if it is a ONCE step and iteration > 1, and it
\* ends normally only when every remaining step is such a step.
PassedOver(v, i) == steps[i] = "ONCE" /\ v.iteration > 1

C10_OnceSteps ==
    [][\A r \in Runs :
         LET v == inv[r]
             w == inv'[r]
         IN  /\ StepBegins(r) =>
                  /\ ~PassedOver(w, w.step)
                  /\ \A i \in Steps : (v.step < i /\ i < w.step) => PassedOver(v, i)
             /\ (v.pc \in {"before", "race"} /\ w.pc = "detach" /\ w.exit = "normal") =>
                  \A i \in Steps : v.step < i => PassedOver(v, i)]_vars

\* In a run with iteration > 1 a ONCE first step has been passed over and
\* the second step has run to its end.
C10_Witness ==
    \E r \in Live :
        /\ inv[r].iteration > 1
        /\ steps[1] = "ONCE"
        /\ inv[r].step = 2
        /\ inv[r].rs = "resolved"

\* ---------------------------------------------------------------------
\* C11: whatever value the body of a step has thrown, runStep does not
\* reject because of it: failed is true while the run goes on, onStepError
\* is called for the step with a structured error of one of the kinds, and
\* afterStep follows it.
ErrorKinds == {"assertion", "structured", "empty"}

C11_ThrownValueHandled ==
    \A r \in Live :
        LET v == inv[r]
            n == Len(v.log)
        IN  v.bodyThrew # "none" =>
              /\ ~(v.rs = "rejected" /\ v.rejection = "TypeError")
              /\ Running(v) => failed
              /\ v.rs \in {"outcome", "afterStep", "resolved"} =>
                    \E j \in 1..n : /\ v.log[j] \in {<<"onStepError", v.step, k>> : k \in ErrorKinds}
                                    /\ v.rs = "outcome" => j = n
                                    /\ v.rs # "outcome" => (j = n - 1 /\ v.log[n][1] = "afterStep")

\* ---------------------------------------------------------------------
\* C12: the structured error handed to onStepError has kind assertion when
\* the name or the message of the thrown error matches the assertion
\* pattern, is the thrown error itself when that carries the structured
\* marker, and has the unclassified kind otherwise.
C12_AssertionByNameOrMessage ==
    \A r \in Live :
        LET v == inv[r] IN
        \A j \in DOMAIN v.log :
            v.log[j][1] = "onStepError" =>
                v.log[j][3] = CASE v.bodyThrew \in {"AssertionError", "AssertionText"} -> "assertion"
                                [] v.bodyThrew = "Structured" -> "structured"
                                [] OTHER -> "empty"

\* ---------------------------------------------------------------------
\* C13: while an invocation is in progress, a failed that has become true
\* during it (by cancel(), or after its reset by a step error or the catch
\* clause) does not go back to false.
C13_FailedMonotonic ==
    [][\A r \in Runs :
         (Running(inv[r]) /\ failed /\ (inv[r].cancelled \/ inv[r].attached)) => failed']_vars

\* ---------------------------------------------------------------------
\* C14: runningBrowser holds a Browser only while the invocation that
\* built it is in progress, from its attach on; before that and once the
\* invocation has ended it holds none (null, or undefined before the
\* first run).
C14_BrowserOnlyWhileRunning ==
    runningBrowser[1] = "browser" =>
        /\ Running(inv[runningBrowser[2]])
        /\ inv[runningBrowser[2]].attached

\* ---------------------------------------------------------------------
\* C15: a step that is not the first one of its run begins only when the
\* runStep of the step before it has resolved, that is after its
\* beforeStep, its body, its outcome hook, its afterStep and, when it
\* passed, its delay; it is a later step of the list; and it begins only
\* if the step before it recorded no error, failed is not set and the
\* token is not cancelled.
C15_StrictlySequential ==
    [][\A r \in Runs :
         LET v == inv[r]
             n == Len(v.log)
         IN  (StepBegins(r) /\ v.step # 0) =>
               /\ v.rs = "resolved"
               /\ n >= 4
               /\ v.log[1] = <<"beforeStep", v.step, "-">>
               /\ v.log[2] = <<"body", v.step, "-">>
               /\ v.log[n - 1][1] \in {"onStepPassed", "onStepError"}
               /\ v.log[n] = <<"afterStep", v.step, "-">>
               /\ inv'[r].step > v.step
               /\ v.error = "none"
               /\ ~failed
               /\ ~v.requested]_vars

\* The second step has begun after the first one, which was not skipped,
\* and is awaiting its beforeStep.
C15_Witness ==
    \E r \in Live :
        /\ inv[r].step = 2
        /\ inv[r].rs = "beforeStep"
        /\ ~PassedOver(inv[r], 1)

\* ---------------------------------------------------------------------
\* C16: when the token has won the race while runStep is in flight, run()
\* goes on to its return without waiting for runStep and without touching
\* it; the runStep left behind goes on after run() has ended: when its body
\* finishes the snapshot is installed as the browser's settings, a thrown
\* error sets failed, onStepPassed or onStepError is called for the step,
\* and afterStep follows.
C16_NonPreemptive ==
    [][\A r \in Runs :
         LET v == inv[r]
             w == inv'[r]
             n == Len(w.log)
         IN  /\ (InFlight(v) /\ v.pc \in {"race", "detach"} /\ w.pc # v.pc) =>
                  /\ w.rs = v.rs /\ w.log = v.log /\ w.settings = v.settings
                  /\ v.pc = "race" => (w.pc = "detach" /\ w.exit = "return")
             /\ (v.pc = "done" /\ w.pc = "done" /\ v.bodyPending) =>
                  /\ (v.rs = "body" /\ w.rs # "body") =>
                        /\ w.settings = v.original
                        /\ w.bodyThrew \notin {"none", "Null"} => failed'
                        /\ w.rs = "outcome" =>
                              w.log[n] \in {<<"onStepPassed", v.step, "-">>}
                                  \cup {<<"onStepError", v.step, k>> : k \in ErrorKinds}
                  /\ (v.rs = "outcome" /\ w.rs = "afterStep") =>
                        w.log[n] = <<"afterStep", v.step, "-">>]_vars

\* run() has returned on cancellation while the body of step 1 was running;
\* since then the body has thrown, the snapshot has been installed, failed
\* has been set, and onStepError and afterStep have been called.
C16_Witness ==
    \E r \in Live :
        LET v == inv[r]
            n == Len(v.log)
        IN  /\ v.pc = "done" /\ v.outcome = "returned" /\ v.bodyPending
            /\ v.step = 1 /\ ~v.cancelled
            /\ v.rs = "resolved" /\ v.bodyThrew = "PlainError"
            /\ failed
            /\ v.settings = v.original /\ v.settings # v.installed
            /\ v.log[n - 1] = <<"onStepError", 1, "empty">>
            /\ v.log[n] = <<"afterStep", 1, "-">>

\* ---------------------------------------------------------------------
\* C17: while the body of step k runs, the browser's settings are an
\* object made for that step, other than this.settings and than the object
\* installed before, holding for each key the value of step k's options
\* if they have the key and the value of this.settings otherwise; the
\* content of this.settings never changes; once the body is over the
\* browser's settings hold the content of this.settings again, so that no
\* value of an earlier step's options reaches a later step.
C17_SettingsIsolated ==
    /\ heap[BaseSettings] = [k \in Keys |-> 1]
    /\ \A r \in Live :
         LET v == inv[r] IN
         /\ v.rs = "body" =>
              /\ v.settings = MergedId(r, v.step)
              /\ v.settings \notin {BaseSettings, v.preStep, v.original}
              /\ DOMAIN heap[v.settings] = Keys
              /\ \A k \in Keys :
                    heap[v.settings][k] = IF k \in DOMAIN StepOptions(v.step)
                                          THEN StepOptions(v.step)[k]
                                          ELSE heap[BaseSettings][k]
         /\ (v.rs = "beforeStep" \/ PastBody(v)) => heap[v.settings] = heap[BaseSettings]

\* The body of the second step runs after the first step, whose options set
\* actionDelay: stepDelay is the second step's, actionDelay is the base value.
C17_Witness ==
    \E r \in Live :
        /\ inv[r].rs = "body"
        /\ inv[r].step = 2
        /\ ~PassedOver(inv[r], 1)
        /\ heap[inv[r].settings] = [stepDelay |-> 3, actionDelay |-> 1]

\* ---------------------------------------------------------------------
\* C18: the testObserver.after of an invocation is called at most once,
\* the call of line 380 and the calls made through cancel() taken together;
\* stated for the invocations that cancel() has reached at most once (two
\* calls through cancel() are C8).
C18_AfterAtMostOnce ==
    \A r \in Live :
        inv[r].afterCancel <= 1 => inv[r].afterRun + inv[r].afterCancel <= 1

\* ---------------------------------------------------------------------
\* C19: once cancel() has been called during an invocation, whether before
\* or after the reset of line 311, that invocation begins no step.
C19_CancelNeverLost ==
    [][\A r \in Runs : inv[r].cancelled => ~StepBegins(r)]_vars

\* ---------------------------------------------------------------------
\* C20: a run() throws 'test failed' only when one of its own steps has
\* recorded an error or cancel() was called during it; what the runStep
\* left behind by an earlier, cancelled invocation does makes no run of
\* passing steps throw.
C20_RunsIsolated ==
    \A r \in Live :
        LET v == inv[r] IN
        (v.pc = "done" /\ v.outcome = "threw" /\ v.raised = "test failed") =>
            (v.error # "none" \/ v.cancelled)

====
